---- MODULE Spec2Model ----
(***************************************************************************)
(* FinHanced: the authentication layer (localAuth: register, login,        *)
(* logout, isAuthenticated), the route table of registerRoutes and the     *)
(* expense handlers, over the PostgreSQL store of the migration; the       *)
(* uploads directory with its static layer; the Landing page of the client.*)
(*                                                                         *)
(* A request is processed in steps that each hold one database operation   *)
(* (the handlers' awaits): the middleware's user lookup, the handler's     *)
(* query, register's existence check and register's insert.  Time is       *)
(* counted in days, the unit of the token lifetime ('7d').                 *)
(***************************************************************************)
EXTENDS Integers, FiniteSets, Sequences, TLC

VARIABLES
    users,      \* rows of table "users"
    expenses,   \* rows of table "expenses"
    nextId,     \* the next value crypto.randomUUID() yields (fresh each time)
    issued,     \* every token jwt.sign has returned so far, with the day
                \* and the key of its minting
    secret,     \* JWT_SECRET of the running process
    clock,      \* the current day
    reqs,       \* the requests being served, one per connection slot
    authToken,  \* the browser's localStorage item 'authToken'
    uploads,    \* the files of directory uploads/, each with the user id of
                \* the request that wrote it
    landing     \* the Landing page: the form being submitted, isLoading, error

vars == <<users, expenses, nextId, issued, secret, clock, reqs, authToken,
          uploads, landing>>

-----------------------------------------------------------------------------
(* Bounds of the model *)

MaxRegistrations == 2
MaxTokens == 1
MaxMintTokens == 2
MaxClock == 8
MaxRestarts == 1
MaxSecond == 0
MaxUploads == 1

-----------------------------------------------------------------------------
(* Values *)

\* JavaScript's undefined, where a user id is expected (ids are positive)
Undefined == -1

\* a request field that was not sent
None == "none"

ExpiresInDays == 7

\* limits.fileSize of the upload middleware, in bytes
MaxFileSize == 10485760

Slots == {1, 2}

\* the seconds of a day at which tokens are signed (jwt.sign stamps the
\* payload with iat, the time in whole seconds): second 0, and MaxSecond
\* further ones
Seconds == 0 .. MaxSecond

Emails == {"a@x", "c@x"}
Passwords == {"pw1", "pw2"}
FirstNames == {"Cat"}
LastNames == {"Lee"}

\* bcrypt.hash / bcrypt.compare: the hash is a one-way image of the password
\* and compare succeeds exactly on the password that was hashed
BcryptHash(password) == <<"bcrypt", password>>

BcryptCompare(password, hash) == hash = BcryptHash(password)

\* obj.key in JavaScript: undefined when the object has no such property
Prop(obj, key) == IF key \in DOMAIN obj THEN obj[key] ELSE Undefined

\* a text field of req.body, None when it was not sent
Field(obj, key) == IF key \in DOMAIN obj THEN obj[key] ELSE None

-----------------------------------------------------------------------------
(* The store: rows the DDL admits.  The database is external to the        *)
(* process and outlives it, so the server starts on the rows it holds.     *)

SeedUsers ==
    { [id |-> 1, email |-> "a@x", password |-> BcryptHash("pw1"),
       firstName |-> "Ann", lastName |-> "Lee", profileImageUrl |-> None],
      [id |-> 2, email |-> "b@x", password |-> BcryptHash("pw2"),
       firstName |-> "Bob", lastName |-> "Lee", profileImageUrl |-> None] }

SeedExpenses ==
    { [id |-> 1, userId |-> 1, category |-> "food", date |-> 1,
       description |-> "lunch", tags |-> {"work"}, receiptUrl |-> None],
      [id |-> 2, userId |-> 2, category |-> "food", date |-> 2,
       description |-> "dinner", tags |-> {}, receiptUrl |-> "/uploads/r2.png"],
      [id |-> 3, userId |-> 2, category |-> "travel", date |-> 3,
       description |-> "uber", tags |-> {"work"}, receiptUrl |-> None] }

NoUser == [id |-> Undefined]

UserIds == {u.id : u \in users}

UsersByEmail(email) == {u \in users : u.email = email}

UsersById(id) == {u \in users : u.id = id}

\* users_email_unique
EmailUnique == \A u1, u2 \in users : u1.email = u2.email => u1 = u2

\* expenses.user_id NOT NULL REFERENCES users(id)
ExpenseOwnerOk(e) == e.userId # Undefined /\ e.userId \in UserIds

-----------------------------------------------------------------------------
(* Token service: jwt.sign / jwt.verify with HS256.  The payload is the    *)
(* user id, iat (the second of signing; the model keeps the day in exp and *)
(* the second of the day in iat) and exp.  The signature is the image of   *)
(* the payload under the key, so signing is deterministic: one payload and *)
(* one key give one token.  A token is valid when its signature is the     *)
(* image of its own payload under the server's key and it has not expired. *)

Sign(userId, iat, exp, key) == <<userId, iat, exp, key>>

JwtSign(userId, key, now, iat) ==
    [userId |-> userId, iat |-> iat, exp |-> now + ExpiresInDays,
     sig |-> Sign(userId, iat, now + ExpiresInDays, key)]

\* jwt.verify with ignoreExpiration: the signature alone decides
JwtVerifyIgnoringExpiry(token, key, now) ==
    token.sig = Sign(token.userId, token.iat, token.exp, key)

JwtVerify(token, key, now) ==
    /\ token.sig = Sign(token.userId, token.iat, token.exp, key)
    /\ now < token.exp

NoToken == [userId |-> Undefined, iat |-> 0, exp |-> 0, sig |-> <<>>]

\* what a client can put after 'Bearer ': a token it was given, such a token
\* with its payload altered, or a token signed with a key of its own (key 0;
\* the server's keys are 1, 2, ...)
Tampered(t) ==
    {[t EXCEPT !.userId = IF t.userId = 1 THEN 2 ELSE 1],
     [t EXCEPT !.exp = t.exp + ExpiresInDays]}

Forged(now) == {JwtSign(1, 0, now, 0)}

IssuedTokens == {i.token : i \in issued}

PresentableTokens ==
    IssuedTokens \cup UNION {Tampered(t) : t \in IssuedTokens} \cup Forged(clock)

-----------------------------------------------------------------------------
(* The route table, in registration order: setupAuth(app) first, then      *)
(* registerRoutes(app).  auth: isAuthenticated is in the chain; upload:    *)
(* upload.single is in the chain; storage: the handler calls storage.      *)
(* app.use('/uploads', express.static('uploads')) is the layer "static".   *)

Route(method, path, auth, upload, storage, handler) ==
    [method |-> method, path |-> path, auth |-> auth, upload |-> upload,
     storage |-> storage, handler |-> handler]

RegisteredRoutes ==
    << Route("POST", "/api/register", FALSE, FALSE, FALSE, "register"),
       Route("POST", "/api/login", FALSE, FALSE, FALSE, "login"),
       Route("GET", "/api/auth/user", TRUE, FALSE, FALSE, "authUser"),
       Route("POST", "/api/logout", FALSE, FALSE, FALSE, "logout"),
       Route("POST", "/api/expenses", TRUE, TRUE, TRUE, "createExpense"),
       Route("GET", "/api/expenses", TRUE, FALSE, TRUE, "listExpenses"),
       Route("PUT", "/api/expenses/:id", TRUE, TRUE, TRUE, "putExpense"),
       Route("DELETE", "/api/expenses/:id", TRUE, FALSE, TRUE, "deleteExpense"),
       Route("POST", "/api/budgets", TRUE, FALSE, TRUE, "generic"),
       Route("GET", "/api/budgets", TRUE, FALSE, TRUE, "generic"),
       Route("GET", "/api/auth/user", TRUE, FALSE, TRUE, "generic"),
       Route("PATCH", "/api/auth/user", TRUE, FALSE, TRUE, "generic"),
       Route("POST", "/api/expenses", TRUE, FALSE, TRUE, "createExpenseAI"),
       Route("GET", "/api/expenses", TRUE, FALSE, TRUE, "listExpensesFiltered"),
       Route("GET", "/api/expenses/:id", TRUE, FALSE, TRUE, "generic"),
       Route("PATCH", "/api/expenses/:id", TRUE, FALSE, TRUE, "patchExpense"),
       Route("DELETE", "/api/expenses/:id", TRUE, FALSE, TRUE, "deleteExpense"),
       Route("POST", "/api/upload", TRUE, TRUE, FALSE, "upload"),
       Route("GET", "/uploads/:filename", FALSE, FALSE, FALSE, "static"),
       Route("GET", "/api/receipts/search", TRUE, FALSE, TRUE, "searchReceipts"),
       Route("GET", "/api/dashboard/stats", TRUE, FALSE, TRUE, "generic"),
       Route("GET", "/api/dashboard/category-breakdown", TRUE, FALSE, TRUE, "generic"),
       Route("GET", "/api/dashboard/spending-trends", TRUE, FALSE, TRUE, "generic"),
       Route("POST", "/api/ai/analyze-expense", TRUE, FALSE, FALSE, "generic"),
       Route("POST", "/api/ai/financial-advice", TRUE, FALSE, TRUE, "generic"),
       Route("GET", "/api/ai/spending-insights", TRUE, FALSE, TRUE, "generic"),
       Route("GET", "/api/currencies", FALSE, FALSE, FALSE, "generic"),
       Route("POST", "/api/currencies/convert", TRUE, FALSE, FALSE, "generic"),
       Route("POST", "/api/budgets", TRUE, FALSE, TRUE, "generic"),
       Route("GET", "/api/budgets", TRUE, FALSE, TRUE, "generic"),
       Route("POST", "/api/goals", TRUE, FALSE, TRUE, "generic"),
       Route("GET", "/api/goals", TRUE, FALSE, TRUE, "generic"),
       Route("POST", "/api/categories", TRUE, FALSE, TRUE, "generic"),
       Route("GET", "/api/categories", TRUE, FALSE, TRUE, "generic"),
       Route("GET", "/uploads/:filename", FALSE, FALSE, FALSE, "static"),
       Route("POST", "/api/ai/analyze-expense", TRUE, FALSE, FALSE, "generic"),
       Route("GET", "/api/currency/rates", FALSE, FALSE, FALSE, "generic"),
       Route("GET", "/api/notifications", TRUE, FALSE, TRUE, "generic"),
       Route("PATCH", "/api/notifications/:id/read", TRUE, FALSE, TRUE, "generic"),
       Route("DELETE", "/api/user/data", TRUE, FALSE, TRUE, "generic"),
       Route("GET", "/api/user/export", TRUE, FALSE, TRUE, "generic") >>

\* POST /api/upload registered without the middleware
RoutesUploadUnguarded == [RegisteredRoutes EXCEPT ![18].auth = FALSE]

\* GET /api/budgets registered without the middleware
RoutesOneUnguarded == [RegisteredRoutes EXCEPT ![10].auth = FALSE]

\* the layers of the application
Routes == RegisteredRoutes

Endpoints == {<<Routes[i].method, Routes[i].path>> : i \in DOMAIN Routes}

Matching(ep) ==
    {i \in DOMAIN Routes : Routes[i].method = ep[1] /\ Routes[i].path = ep[2]}

\* the layer registered last runs
ResolveLast(ep) == CHOOSE i \in Matching(ep) : \A j \in Matching(ep) : i >= j

\* Express runs the first layer that matches; none of the handlers calls
\* next(), so a later registration of the same method and path never runs
Resolve(ep) == CHOOSE i \in Matching(ep) : \A j \in Matching(ep) : i <= j

-----------------------------------------------------------------------------
(* Requests *)

NoHeader == [scheme |-> "none", token |-> NoToken]

\* the Authorization header: absent, of another scheme, or 'Bearer <token>'
Headers ==
    {NoHeader, [scheme |-> "Basic", token |-> NoToken]}
        \cup {[scheme |-> "Bearer", token |-> t] : t \in PresentableTokens}

NoBody == [none |-> TRUE]

NoOut == [token |-> NoToken, user |-> NoUser, rows |-> {}, url |-> None]

\* bodies with every field, and bodies with one field missing
RegisterBodies ==
    LET full == [email : Emails, password : Passwords,
                 firstName : FirstNames, lastName : LastNames]
        b == [email |-> "c@x", password |-> "pw1",
              firstName |-> "Cat", lastName |-> "Lee"]
    IN  full \cup {[b EXCEPT !.email = None], [b EXCEPT !.password = None],
                   [b EXCEPT !.firstName = None], [b EXCEPT !.lastName = None]}

LoginBodies ==
    [email : Emails \cup {"z@x"}, password : Passwords]
        \cup {[email |-> None, password |-> "pw1"],
              [email |-> "a@x", password |-> None]}

ExpenseBodies ==
    { [category |-> "misc", description |-> "taxi", amount |-> "12.50"],
      [category |-> "misc", description |-> "taxi", amount |-> "12.50",
       userId |-> 2],
      [category |-> "misc", description |-> "taxi", amount |-> "12.50",
       id |-> 2] }

\* bodies of POST /api/expenses: complete, with a userId of the caller's
\* choosing, without category, without description
CreateBodies ==
    ExpenseBodies \cup
        { [description |-> "uber", amount |-> "30.00"],
          [category |-> "misc", amount |-> "12.50"] }

\* the file part of a multipart request: its MIME type (type, subtype) and
\* its size in bytes
NoFile == [mimetype |-> <<"none", "none">>, size |-> 0]

Files ==
    [mimetype : {<<"image", "png">>, <<"application", "pdf">>, <<"text", "plain">>},
     size : {MaxFileSize, MaxFileSize + 1}]

UploadBodies == {[file |-> f] : f \in Files \cup {NoFile}}

\* multipart bodies of POST /api/expenses and PUT /api/expenses/:id with a
\* file in field 'receipt'
ReceiptBodies ==
    {[category |-> "misc", description |-> "taxi", amount |-> "12.50",
      file |-> f] : f \in Files}

\* req.file before multer has run: the file part of the body, if any
FileOf(body) == IF "file" \in DOMAIN body THEN body.file ELSE NoFile

NoQuery == [category |-> None, startDate |-> None, endDate |-> None,
            tags |-> None, search |-> None]

Queries == {NoQuery, [NoQuery EXCEPT !.category = "travel", !.search = "ub"]}

\* the query string of GET /api/receipts/search
NoReceiptQuery == [query |-> None, category |-> None, dateFrom |-> None,
                   dateTo |-> None, tags |-> None]

ReceiptQueries ==
    {NoReceiptQuery, [NoReceiptQuery EXCEPT !.category = "food"],
     [NoReceiptQuery EXCEPT !.query = "ub", !.category = "travel"]}

Idle ==
    [pc |-> "idle", route |-> 0, hdr |-> NoHeader, body |-> NoBody,
     param |-> 0, query |-> NoQuery,
     ctxUserId |-> Undefined, ctxUser |-> NoUser,
     verified |-> FALSE, looked |-> FALSE, authed |-> FALSE,
     invoked |-> FALSE, storageArgs |-> {},
     found |-> FALSE, pwOk |-> FALSE,
     sent |-> 0, status |-> 0, msg |-> "", out |-> NoOut]

Handler(r) == Routes[r.route].handler

\* res.status(status).json({message}) / res.json(out): the response is sent
Respond(r, status, msg, out) ==
    [r EXCEPT !.pc = "done", !.sent = r.sent + 1,
              !.status = status, !.msg = msg, !.out = out]

BodiesFor(h) ==
    CASE h = "register" -> RegisterBodies
      [] h = "login" -> LoginBodies
      [] h = "createExpense" -> CreateBodies
      [] h \in {"putExpense", "patchExpense"} -> ExpenseBodies
      [] h = "upload" -> UploadBodies
      [] OTHER -> {NoBody}

ParamsFor(path) ==
    IF path \in {"/api/expenses/:id", "/api/notifications/:id/read"}
    THEN {e.id : e \in SeedExpenses}
    ELSE IF path = "/uploads/:filename" THEN 1 .. MaxUploads
    ELSE {0}

QueriesFor(h) ==
    IF h = "listExpenses" THEN Queries
    ELSE IF h = "searchReceipts" THEN ReceiptQueries
    ELSE {NoQuery}

\* upload.fileFilter: images and PDFs pass
FileFilter(file) ==
    file.mimetype[1] = "image" \/ file.mimetype = <<"application", "pdf">>

\* the errors upload.single passes to next(): the Error of fileFilter and
\* multer's LIMIT_FILE_SIZE; neither has a status or statusCode
NoError == [status |-> Undefined, message |-> ""]

UploadSingle(file) ==
    IF file = NoFile THEN NoError
    ELSE IF ~FileFilter(file)
    THEN [status |-> Undefined, message |-> "Only images and PDF files are allowed!"]
    ELSE IF file.size > MaxFileSize
    THEN [status |-> Undefined, message |-> "File too large"]
    ELSE NoError

\* the error handler of the application: err.status || err.statusCode || 500
ErrorHandler(r, err) ==
    Respond(r, IF err.status # Undefined THEN err.status ELSE 500, err.message, NoOut)

\* multer.diskStorage: a file that passes the filter and the size limit is
\* written to uploads/ under a name no other file has (a file over the limit
\* is removed again)
Stored(file) == file # NoFile /\ UploadSingle(file) = NoError

StoredFile(r) == [name |-> Cardinality(uploads) + 1, by |-> r.ctxUserId]

UploadsAfter(r, file) ==
    IF Stored(file) THEN uploads \cup {StoredFile(r)} ELSE uploads

\* a request arrives on a free connection and enters the chain of the first
\* matching route: the middleware if the route has it, else the handler
\* (requests whose file would be stored arrive while uploads/ holds fewer
\* than MaxUploads files)
Arrive(s, ep, hdr, body, param, query) ==
    /\ reqs[s].pc \in {"idle", "done"}
    /\ Stored(FileOf(body)) => Cardinality(uploads) < MaxUploads
    /\ reqs' = [reqs EXCEPT ![s] =
          [Idle EXCEPT !.pc = IF Routes[Resolve(ep)].auth THEN "auth" ELSE "handler",
                       !.route = Resolve(ep), !.hdr = hdr, !.body = body,
                       !.param = param, !.query = query]]
    /\ UNCHANGED <<users, expenses, nextId, issued, secret, clock, authToken, uploads, landing>>

-----------------------------------------------------------------------------
(* Auth middleware *)

\* the header is only tested for presence, not for its scheme
isAuthenticatedAnyScheme(r) ==
    IF r.hdr.scheme = "none"
    THEN Respond(r, 401, "No token provided", NoOut)
    ELSE IF ~JwtVerify(r.hdr.token, secret, clock)
    THEN Respond([r EXCEPT !.verified = TRUE], 401, "Invalid token", NoOut)
    ELSE [r EXCEPT !.verified = TRUE, !.looked = TRUE, !.authed = TRUE,
                   !.ctxUserId = r.hdr.token.userId, !.pc = "handler"]

\* the user row is not looked up: a verified token is enough
isAuthenticatedWithoutLookup(r) ==
    IF r.hdr.scheme # "Bearer"
    THEN Respond(r, 401, "No token provided", NoOut)
    ELSE IF ~JwtVerify(r.hdr.token, secret, clock)
    THEN Respond([r EXCEPT !.verified = TRUE], 401, "Invalid token", NoOut)
    ELSE [r EXCEPT !.verified = TRUE, !.authed = TRUE,
                   !.ctxUserId = r.hdr.token.userId, !.pc = "handler"]

\* the 401 for a missing header is sent without return: next() follows
isAuthenticatedRespondsAndContinues(r) ==
    IF r.hdr.scheme # "Bearer"
    THEN [Respond(r, 401, "No token provided", NoOut) EXCEPT !.pc = "handler"]
    ELSE IF ~JwtVerify(r.hdr.token, secret, clock)
    THEN Respond([r EXCEPT !.verified = TRUE], 401, "Invalid token", NoOut)
    ELSE IF UsersById(r.hdr.token.userId) = {}
    THEN Respond([r EXCEPT !.verified = TRUE, !.looked = TRUE],
                 401, "User not found", NoOut)
    ELSE [r EXCEPT !.verified = TRUE, !.looked = TRUE, !.authed = TRUE,
                   !.ctxUserId = r.hdr.token.userId,
                   !.ctxUser = CHOOSE u \in UsersById(r.hdr.token.userId) : TRUE,
                   !.pc = "handler"]

isAuthenticated(r) ==
    IF r.hdr.scheme # "Bearer"
    THEN Respond(r, 401, "No token provided", NoOut)
    ELSE IF ~JwtVerify(r.hdr.token, secret, clock)
    THEN Respond([r EXCEPT !.verified = TRUE], 401, "Invalid token", NoOut)
    ELSE IF UsersById(r.hdr.token.userId) = {}
    THEN Respond([r EXCEPT !.verified = TRUE, !.looked = TRUE],
                 401, "User not found", NoOut)
    ELSE [r EXCEPT !.verified = TRUE, !.looked = TRUE, !.authed = TRUE,
                   !.ctxUserId = r.hdr.token.userId,
                   !.ctxUser = CHOOSE u \in UsersById(r.hdr.token.userId) : TRUE,
                   !.pc = "handler"]

AuthStep(s) ==
    /\ reqs[s].pc = "auth"
    /\ reqs' = [reqs EXCEPT ![s] = isAuthenticated(reqs[s])]
    /\ UNCHANGED <<users, expenses, nextId, issued, secret, clock, authToken, uploads, landing>>

-----------------------------------------------------------------------------
(* localAuth: register, login, current user, logout *)

\* jwt.sign({ userId }, JWT_SECRET, { expiresIn: '7d' }) of register and login
MintToken(userId, iat) == JwtSign(userId, secret, clock, iat)

\* the record of a signing: the token, the day, the key and the endpoint
Minted(token, by) == [token |-> token, at |-> clock, key |-> secret, by |-> by]

\* the row is returned as it was read, password hash included
PublicUserWithHash(u) == u

\* the user object of the register, login and current-user responses
PublicUser(u) ==
    [id |-> u.id, email |-> u.email, firstName |-> u.firstName,
     lastName |-> u.lastName, profileImageUrl |-> u.profileImageUrl]

\* the existence check left out: the insert is tried at once
ExistingUserUnchecked(email) == {}

\* the existence check of register: select ... where email = $1 limit 1
ExistingUser(email) == UsersByEmail(email)

RegisterCheck(s) ==
    LET r == [reqs[s] EXCEPT !.invoked = TRUE]
        b == r.body
    IN  /\ reqs[s].pc = "handler"
        /\ Handler(reqs[s]) = "register"
        /\ reqs' = [reqs EXCEPT ![s] =
              IF None \in {b.email, b.password, b.firstName, b.lastName}
              THEN Respond(r, 400, "All fields are required", NoOut)
              ELSE IF ExistingUser(b.email) # {}
              THEN Respond([r EXCEPT !.found = TRUE], 400, "User already exists", NoOut)
              ELSE [r EXCEPT !.pc = "insert"]]
        /\ UNCHANGED <<users, expenses, nextId, issued, secret, clock, authToken, uploads, landing>>

\* insert into users ... returning; users_email_unique makes the insert throw
\* when the email is taken by now, and the handler's catch answers 500
RegisterInsert(s) ==
    LET r == reqs[s]
        b == r.body
        user == [id |-> nextId, email |-> b.email,
                 password |-> BcryptHash(b.password),
                 firstName |-> b.firstName, lastName |-> b.lastName,
                 profileImageUrl |-> None]
    IN  /\ r.pc = "insert"
        /\ IF UsersByEmail(b.email) # {}
           THEN /\ reqs' = [reqs EXCEPT ![s] =
                      Respond(r, 500, "Internal server error", NoOut)]
                /\ UNCHANGED <<users, nextId, issued, uploads, landing>>
           ELSE \E iat \in Seconds :
                LET token == MintToken(user.id, iat)
                IN  /\ users' = users \cup {user}
                    /\ nextId' = nextId + 1
                    /\ issued' = issued \cup {Minted(token, "register")}
                    /\ reqs' = [reqs EXCEPT ![s] =
                          Respond(r, 200, "User created successfully",
                                  [NoOut EXCEPT !.token = token,
                                                !.user = PublicUser(user)])]
        /\ UNCHANGED <<expenses, secret, clock, authToken, uploads, landing>>

\* an unknown email is told apart from a wrong password
LoginRejectTelling(r, found) ==
    IF found
    THEN Respond([r EXCEPT !.found = found], 401, "Invalid credentials", NoOut)
    ELSE Respond([r EXCEPT !.found = found], 404, "User not found", NoOut)

\* the two rejections of login: unknown email (found = FALSE) and wrong
\* password (found = TRUE)
LoginReject(r, found) ==
    Respond([r EXCEPT !.found = found], 401, "Invalid credentials", NoOut)

Login(s) ==
    LET r == [reqs[s] EXCEPT !.invoked = TRUE]
        b == r.body
        userResult == UsersByEmail(b.email)
        user == CHOOSE u \in userResult : TRUE
    IN  /\ reqs[s].pc = "handler"
        /\ Handler(reqs[s]) = "login"
        /\ IF None \in {b.email, b.password}
           THEN /\ reqs' = [reqs EXCEPT ![s] =
                      Respond(r, 400, "Email and password are required", NoOut)]
                /\ UNCHANGED issued
           ELSE IF userResult = {}
           THEN /\ reqs' = [reqs EXCEPT ![s] = LoginReject(r, FALSE)]
                /\ UNCHANGED issued
           ELSE IF ~BcryptCompare(b.password, user.password)
           THEN /\ reqs' = [reqs EXCEPT ![s] = LoginReject(r, TRUE)]
                /\ UNCHANGED issued
           ELSE \E iat \in Seconds :
                LET token == MintToken(user.id, iat)
                IN  /\ issued' = issued \cup {Minted(token, "login")}
                    /\ reqs' = [reqs EXCEPT ![s] =
                          Respond([r EXCEPT !.found = TRUE, !.pwOk = TRUE],
                                  200, "Login successful",
                                  [NoOut EXCEPT !.token = token,
                                                !.user = PublicUser(user)])]
        /\ UNCHANGED <<users, expenses, nextId, secret, clock, authToken, uploads, landing>>

\* GET /api/auth/user as localAuth registers it: it reads req.userId
GetAuthUser(s) ==
    LET r == [reqs[s] EXCEPT !.invoked = TRUE]
        userResult == UsersById(r.ctxUserId)
    IN  /\ reqs[s].pc = "handler"
        /\ Handler(reqs[s]) = "authUser"
        /\ reqs' = [reqs EXCEPT ![s] =
              IF userResult = {}
              THEN Respond(r, 404, "User not found", NoOut)
              ELSE Respond(r, 200, "",
                     [NoOut EXCEPT !.user = PublicUser(CHOOSE u \in userResult : TRUE)])]
        /\ UNCHANGED <<users, expenses, nextId, issued, secret, clock, authToken, uploads, landing>>

\* logging out rotates the signing key, which revokes every token
LogoutRevoking(s) ==
    /\ reqs[s].pc = "handler"
    /\ Handler(reqs[s]) = "logout"
    /\ reqs' = [reqs EXCEPT ![s] =
          Respond([reqs[s] EXCEPT !.invoked = TRUE], 200, "Logged out successfully", NoOut)]
    /\ secret' = secret + 1
    /\ UNCHANGED <<users, expenses, nextId, issued, clock, authToken, uploads, landing>>

Logout(s) ==
    /\ reqs[s].pc = "handler"
    /\ Handler(reqs[s]) = "logout"
    /\ reqs' = [reqs EXCEPT ![s] =
          Respond([reqs[s] EXCEPT !.invoked = TRUE], 200, "Logged out successfully", NoOut)]
    /\ UNCHANGED <<users, expenses, nextId, issued, secret, clock, authToken, uploads, landing>>

-----------------------------------------------------------------------------
(* Resource Access Layer (storage): queries scoped by the owner id         *)

\* description contains search (the strings of the model, pair by pair)
Contains(description, search) ==
    <<description, search>> \in {<<"uber", "ub">>, <<"taxi", "ax">>}

MatchesFilters(e, f) ==
    /\ f.category = None \/ e.category = f.category
    /\ f.startDate = None \/ e.date >= f.startDate
    /\ f.endDate = None \/ e.date <= f.endDate
    /\ f.tags = None \/ e.tags \cap f.tags # {}
    /\ f.search = None \/ Contains(e.description, f.search)

StorageGetExpenses(userId, filters) ==
    {e \in expenses : e.userId = userId /\ MatchesFilters(e, filters)}

\* the columns of updates overwrite those of the row
ApplyUpdates(e, updates) ==
    [c \in DOMAIN e |-> IF c \in DOMAIN updates THEN updates[c] ELSE e[c]]

StorageUpdateExpense(id, userId, updates) ==
    {IF e.id = id /\ e.userId = userId THEN ApplyUpdates(e, updates) ELSE e
        : e \in expenses}

StorageDeleteExpense(id, userId) ==
    {e \in expenses : ~(e.id = id /\ e.userId = userId)}

\* a query whose owner parameter is undefined matches no row, or is refused
\* by the driver: both are outcomes of the call
StorageThrows(userId) == IF userId = Undefined THEN BOOLEAN ELSE {FALSE}

-----------------------------------------------------------------------------
(* registerRoutes: the handlers *)

\* the owner is the id the middleware took from the token (req.userId)
HandlerUserIdFromToken(r) == r.ctxUserId

\* the owner is taken from the request body
HandlerUserIdFromBody(r) == Prop(r.body, "userId")

\* const userId = req.user.userId, req.user being the users row
HandlerUserId(r) == Prop(r.ctxUser, "userId")

\* the list is not scoped by the owner
ListedExpensesOfAll(userId, query) == expenses

\* storage.getExpenses(userId) of the GET /api/expenses that is registered
\* first: the query string is not passed on
ListedExpenses(userId, query) == StorageGetExpenses(userId, NoQuery)

ListExpenses(s) ==
    LET r == [reqs[s] EXCEPT !.invoked = TRUE,
                             !.storageArgs = {HandlerUserId(reqs[s])}]
        userId == HandlerUserId(reqs[s])
    IN  /\ reqs[s].pc = "handler"
        /\ Handler(reqs[s]) = "listExpenses"
        /\ \E throws \in StorageThrows(userId) :
              reqs' = [reqs EXCEPT ![s] =
                  IF throws
                  THEN Respond(r, 500, "Failed to fetch expenses", NoOut)
                  ELSE Respond(r, 200, "",
                         [NoOut EXCEPT !.rows = ListedExpenses(userId, r.query)])]
        /\ UNCHANGED <<users, expenses, nextId, issued, secret, clock, authToken, uploads, landing>>

NewExpenseId == 1 + Cardinality(expenses) + Cardinality(SeedExpenses)

\* insertExpenseSchema.parse: the columns that are NOT NULL without a
\* default are required
InsertExpenseSchemaOk(data) ==
    /\ data.userId # Undefined
    /\ data.amount # None
    /\ data.description # None
    /\ data.category # None

\* aiService.analyzeExpense: the categorization collaborator, which returns
\* a fixed category and tags
AnalyzeExpense(description) ==
    [suggestedCategory |-> "travel", tags |-> {"ai"}]

\* POST /api/expenses as registered first: userId overrides the body's, the
\* data is parsed against the schema and inserted; a parse error and a row
\* without owner (user_id NOT NULL) are both answered 500 by the catch.
\* No category is asked of aiService here.  upload.single('receipt') runs
\* before the handler and stores the file, whatever the handler does next.
CreateExpense(s) ==
    LET r == [reqs[s] EXCEPT !.invoked = TRUE]
        userId == HandlerUserId(reqs[s])
        file == FileOf(reqs[s].body)
        err == UploadSingle(file)
        expenseData == [userId |-> userId,
                        amount |-> Field(r.body, "amount"),
                        category |-> Field(r.body, "category"),
                        description |-> Field(r.body, "description")]
        row == [id |-> NewExpenseId, userId |-> expenseData.userId,
                category |-> expenseData.category, date |-> clock,
                description |-> expenseData.description, tags |-> {},
                receiptUrl |-> IF file # NoFile THEN "/uploads/file" ELSE None]
    IN  /\ reqs[s].pc = "handler"
        /\ Handler(reqs[s]) = "createExpense"
        /\ uploads' = UploadsAfter(reqs[s], file)
        /\ IF err # NoError
           THEN /\ reqs' = [reqs EXCEPT ![s] = ErrorHandler(reqs[s], err)]
                /\ UNCHANGED expenses
           ELSE IF ~InsertExpenseSchemaOk(expenseData) \/ ~ExpenseOwnerOk(row)
           THEN /\ reqs' = [reqs EXCEPT ![s] =
                      Respond(r, 500, "Failed to create expense", NoOut)]
                /\ UNCHANGED expenses
           ELSE /\ expenses' = expenses \cup {row}
                /\ reqs' = [reqs EXCEPT ![s] =
                      Respond([r EXCEPT !.storageArgs = {userId}], 200, "",
                              [NoOut EXCEPT !.rows = {row}])]
        /\ UNCHANGED <<users, nextId, issued, secret, clock, authToken, landing>>

\* PUT and PATCH /api/expenses/:id: storage.updateExpense(id, userId, body);
\* PUT has upload.single('receipt') before the handler and sets receiptUrl
\* to the stored file's URL
UpdateExpense(s, h, failure) ==
    LET r == [reqs[s] EXCEPT !.invoked = TRUE,
                             !.storageArgs = {HandlerUserId(reqs[s])}]
        userId == HandlerUserId(reqs[s])
        file == IF Routes[reqs[s].route].upload THEN FileOf(reqs[s].body)
                ELSE NoFile
        err == UploadSingle(file)
        updates == IF file = NoFile THEN r.body
                   ELSE [c \in DOMAIN r.body \cup {"receiptUrl"} |->
                            IF c = "receiptUrl" THEN "/uploads/file"
                            ELSE r.body[c]]
        after == StorageUpdateExpense(r.param, userId, updates)
    IN  /\ reqs[s].pc = "handler"
        /\ Handler(reqs[s]) = h
        /\ uploads' = UploadsAfter(reqs[s], file)
        /\ \E throws \in StorageThrows(userId) :
              IF err # NoError
              THEN /\ reqs' = [reqs EXCEPT ![s] = ErrorHandler(reqs[s], err)]
                   /\ UNCHANGED expenses
              ELSE IF throws
              THEN /\ reqs' = [reqs EXCEPT ![s] = Respond(r, 500, failure, NoOut)]
                   /\ UNCHANGED expenses
              ELSE /\ expenses' = after
                   /\ reqs' = [reqs EXCEPT ![s] =
                         Respond(r, 200, "",
                           [NoOut EXCEPT !.rows =
                              {e \in after : e.id = r.param /\ e.userId = userId}])]
        /\ UNCHANGED <<users, nextId, issued, secret, clock, authToken, landing>>

PutExpense(s) == UpdateExpense(s, "putExpense", "Failed to update expense")

PatchExpense(s) == UpdateExpense(s, "patchExpense", "Failed to update expense")

DeleteExpense(s) ==
    LET r == [reqs[s] EXCEPT !.invoked = TRUE,
                             !.storageArgs = {HandlerUserId(reqs[s])}]
        userId == HandlerUserId(reqs[s])
    IN  /\ reqs[s].pc = "handler"
        /\ Handler(reqs[s]) = "deleteExpense"
        /\ \E throws \in StorageThrows(userId) :
              IF throws
              THEN /\ reqs' = [reqs EXCEPT ![s] =
                         Respond(r, 500, "Failed to delete expense", NoOut)]
                   /\ UNCHANGED expenses
              ELSE /\ expenses' = StorageDeleteExpense(r.param, userId)
                   /\ reqs' = [reqs EXCEPT ![s] =
                         Respond(r, 200, "Expense deleted successfully", NoOut)]
        /\ UNCHANGED <<users, nextId, issued, secret, clock, authToken, uploads, landing>>

\* POST /api/upload: upload.single('file'), then the handler
Upload(s) ==
    LET r == reqs[s]
        file == r.body.file
        err == UploadSingle(file)
    IN  /\ r.pc = "handler"
        /\ Handler(r) = "upload"
        /\ reqs' = [reqs EXCEPT ![s] =
              IF err # NoError
              THEN ErrorHandler(r, err)
              ELSE IF file = NoFile
              THEN Respond([r EXCEPT !.invoked = TRUE], 400, "No file uploaded", NoOut)
              ELSE Respond([r EXCEPT !.invoked = TRUE], 200, "",
                           [NoOut EXCEPT !.url = "/uploads/file"])]
        /\ uploads' = UploadsAfter(r, file)
        /\ UNCHANGED <<users, expenses, nextId, issued, secret, clock, authToken, landing>>

\* app.use('/uploads', express.static('uploads')): the file of that name is
\* sent if uploads/ holds it; the layer has no middleware before it and does
\* not read the Authorization header.  A name that is not there falls
\* through to the layers after the routes.
ServeStatic(s) ==
    LET r == reqs[s]
    IN  /\ r.pc = "handler"
        /\ Handler(r) = "static"
        /\ reqs' = [reqs EXCEPT ![s] =
              IF \E f \in uploads : f.name = r.param
              THEN Respond(r, 200, "", [NoOut EXCEPT !.url = "/uploads/file"])
              ELSE Respond(r, 404, "Not found", NoOut)]
        /\ UNCHANGED <<users, expenses, nextId, issued, secret, clock, authToken,
                       uploads, landing>>

\* GET /api/receipts/search: the filters built from the query string
SearchFilters(userId, q) ==
    [userId |-> userId, search |-> q.query, category |-> q.category,
     startDate |-> q.dateFrom, endDate |-> q.dateTo, tags |-> q.tags]

\* the fields of an expense the search answers with
Receipt(e) ==
    [id |-> e.id, description |-> e.description, category |-> e.category,
     date |-> e.date, receiptUrl |-> e.receiptUrl, tags |-> e.tags]

\* every expense of the store is answered
SearchedReceiptsOfAll(userId, q) == {Receipt(e) : e \in expenses}

\* storage.getExpenses(userId, filters), then those with a receiptUrl
SearchedReceipts(userId, q) ==
    {Receipt(e) : e \in
        {x \in StorageGetExpenses(userId, SearchFilters(userId, q)) :
            x.receiptUrl # None}}

SearchReceipts(s) ==
    LET r == [reqs[s] EXCEPT !.invoked = TRUE,
                             !.storageArgs = {HandlerUserId(reqs[s])}]
        userId == HandlerUserId(reqs[s])
    IN  /\ reqs[s].pc = "handler"
        /\ Handler(reqs[s]) = "searchReceipts"
        /\ \E throws \in StorageThrows(userId) :
              reqs' = [reqs EXCEPT ![s] =
                  IF throws
                  THEN Respond(r, 500, "Failed to search receipts", NoOut)
                  ELSE Respond(r, 200, "",
                         [NoOut EXCEPT !.rows = SearchedReceipts(userId, r.query)])]
        /\ UNCHANGED <<users, expenses, nextId, issued, secret, clock, authToken,
                       uploads, landing>>

\* every other handler of registerRoutes, as far as the store goes: those
\* that call storage.* pass req.user.userId to it and read only
OtherHandler(s) ==
    LET rt == Routes[reqs[s].route]
        userId == HandlerUserId(reqs[s])
        r == [reqs[s] EXCEPT !.invoked = TRUE,
                             !.storageArgs = IF rt.storage THEN {userId} ELSE {}]
    IN  /\ reqs[s].pc = "handler"
        /\ Handler(reqs[s]) = "generic"
        /\ \E throws \in (IF rt.storage THEN StorageThrows(userId) ELSE {FALSE}) :
              reqs' = [reqs EXCEPT ![s] =
                  IF throws THEN Respond(r, 500, "Failed", NoOut)
                  ELSE Respond(r, 200, "", NoOut)]
        /\ UNCHANGED <<users, expenses, nextId, issued, secret, clock, authToken, uploads, landing>>

-----------------------------------------------------------------------------
(* The environment: time, the process, the database, the browser *)

\* a day passes; day 0 is the day the first token is minted (nothing
\* depends on the time before)
Tick ==
    /\ issued # {}
    /\ clock < MaxClock
    /\ clock' = clock + 1
    /\ UNCHANGED <<users, expenses, nextId, issued, secret, reqs, authToken, uploads, landing>>

\* the process starts again: requests in flight are lost, and JWT_SECRET is
\* the environment's (unchanged) or, when that is not set, a new random one
Restart ==
    /\ \/ secret' = secret
       \/ secret <= MaxRestarts /\ secret' = secret + 1
    /\ reqs' = [s \in Slots |-> Idle]
    /\ UNCHANGED <<users, expenses, nextId, issued, clock, authToken, uploads, landing>>

\* a users row is deleted in the database; the foreign keys cascade
DbDeleteUser(u) ==
    /\ u \in users
    /\ users' = users \ {u}
    /\ expenses' = {e \in expenses : e.userId # u.id}
    /\ UNCHANGED <<nextId, issued, secret, clock, reqs, authToken, uploads, landing>>

\* Landing: localStorage.setItem('authToken', data.token) once the login or
\* register request has succeeded
StoreToken(s) ==
    /\ reqs[s].pc = "done"
    /\ Handler(reqs[s]) \in {"login", "register"}
    /\ reqs[s].status = 200
    /\ authToken' = reqs[s].out.token
    /\ UNCHANGED <<users, expenses, nextId, issued, secret, clock, reqs, uploads, landing>>

\* Landing.handleLogin and handleRegister, up to the first await: isLoading
\* is set, the error is cleared and apiRequest sends the form (the counters
\* of the model are capped as in Request)
HandleSubmit(s, ep, body) ==
    /\ landing.pc = "idle"
    /\ reqs[s].pc \in {"idle", "done"}
    /\ Handler([route |-> Resolve(ep)]) = "register" =>
          nextId <= Cardinality(SeedUsers) + MaxRegistrations
    /\ Cardinality(issued) < MaxMintTokens
    /\ landing' = [pc |-> "awaiting", isLoading |-> TRUE, error |-> "",
                   wrote |-> FALSE]
    /\ reqs' = [reqs EXCEPT ![s] =
          [Idle EXCEPT !.pc = "handler", !.route = Resolve(ep), !.body = body]]
    /\ UNCHANGED <<users, expenses, nextId, issued, secret, clock, authToken,
                   uploads>>

\* apiRequest resolves with the response when its status is 2xx and rejects
\* with an Error otherwise
ApiRequestOk(r) == r.status \in 200 .. 299

\* err.message || "Login failed" (handleRegister: "Registration failed")
ErrorMessage(r) ==
    IF r.msg # "" THEN r.msg
    ELSE IF Handler(r) = "register" THEN "Registration failed"
    ELSE "Login failed"

\* useAuth().refetch: identity is asked for with the token of localStorage
Refetch(token) ==
    [Idle EXCEPT !.pc = "auth", !.route = Resolve(<<"GET", "/api/auth/user">>),
                 !.hdr = IF token = NoToken THEN NoHeader
                         ELSE [scheme |-> "Bearer", token |-> token]]

\* the token field of the response is stored before the status is looked at
HandleResponseStoringFirst(s) ==
    /\ landing.pc = "awaiting"
    /\ reqs[s].pc = "done"
    /\ authToken' = reqs[s].out.token
    /\ IF ApiRequestOk(reqs[s])
       THEN /\ landing' = [landing EXCEPT !.pc = "refetching", !.wrote = TRUE]
            /\ reqs' = [reqs EXCEPT ![s] = Refetch(authToken')]
       ELSE /\ landing' = [landing EXCEPT !.pc = "idle", !.isLoading = FALSE,
                                          !.wrote = TRUE,
                                          !.error = ErrorMessage(reqs[s])]
            /\ UNCHANGED reqs
    /\ UNCHANGED <<users, expenses, nextId, issued, secret, clock, uploads>>

\* Landing.handleLogin and handleRegister once the request has settled: on
\* success data.token is stored and refetch() is awaited; on failure the
\* catch sets the error and the finally resets isLoading
HandleResponse(s) ==
    /\ landing.pc = "awaiting"
    /\ reqs[s].pc = "done"
    /\ IF ApiRequestOk(reqs[s])
       THEN /\ authToken' = reqs[s].out.token
            /\ landing' = [landing EXCEPT !.pc = "refetching", !.wrote = TRUE]
            /\ reqs' = [reqs EXCEPT ![s] = Refetch(authToken')]
       ELSE /\ landing' = [landing EXCEPT !.pc = "idle", !.isLoading = FALSE,
                                          !.error = ErrorMessage(reqs[s])]
            /\ UNCHANGED <<authToken, reqs>>
    /\ UNCHANGED <<users, expenses, nextId, issued, secret, clock, uploads>>

\* refetch() has settled: the finally resets isLoading
HandleRefetched(s) ==
    /\ landing.pc = "refetching"
    /\ reqs[s].pc = "done"
    /\ landing' = [landing EXCEPT !.pc = "idle", !.isLoading = FALSE]
    /\ UNCHANGED <<users, expenses, nextId, issued, secret, clock, reqs,
                   authToken, uploads>>

\* Header.handleLogout: the token is removed and identity is fetched again,
\* now without a token; POST /api/logout is not called
HandleLogout(s) ==
    /\ reqs[s].pc \in {"idle", "done"}
    /\ authToken' = NoToken
    /\ reqs' = [reqs EXCEPT ![s] =
          [Idle EXCEPT !.pc = "auth", !.route = Resolve(<<"GET", "/api/auth/user">>)]]
    /\ UNCHANGED <<users, expenses, nextId, issued, secret, clock, uploads, landing>>

-----------------------------------------------------------------------------
(* Specifications *)

\* the Landing page at rest
LandingIdle == [pc |-> "idle", isLoading |-> FALSE, error |-> "", wrote |-> FALSE]

Init ==
    /\ users = SeedUsers
    /\ expenses = SeedExpenses
    /\ nextId = Cardinality(SeedUsers) + 1
    /\ issued = {}
    /\ secret = 1
    /\ clock = 0
    /\ reqs = [s \in Slots |-> Idle]
    /\ authToken = NoToken
    /\ uploads = {}
    /\ landing = LandingIdle

\* a request the clients can send now; the counters of the model are capped
\* (registrations, and tokens: register and login requests arrive while
\* fewer than maxTokens tokens have been signed)
Request(s, ep, maxTokens) ==
    LET rt == Routes[Resolve(ep)]
    IN  /\ rt.handler = "register" =>
              nextId <= Cardinality(SeedUsers) + MaxRegistrations
        /\ rt.handler \in {"register", "login"} => Cardinality(issued) < maxTokens
        /\ \E hdr \in (IF rt.auth THEN Headers ELSE {NoHeader}),
              body \in BodiesFor(rt.handler),
              param \in ParamsFor(rt.path),
              query \in QueriesFor(rt.handler) :
                Arrive(s, ep, hdr, body, param, query)

\* the endpoints of localAuth and of the expenses
CoreEndpoints ==
    {ep \in Endpoints :
        Routes[Resolve(ep)].handler \notin
            {"generic", "upload", "static", "searchReceipts"}}

\* the server with one request at a time, and the browser
Next ==
    \/ \E ep \in CoreEndpoints : Request(1, ep, MaxTokens)
    \/ AuthStep(1)
    \/ RegisterCheck(1)
    \/ RegisterInsert(1)
    \/ Login(1)
    \/ GetAuthUser(1)
    \/ Logout(1)
    \/ ListExpenses(1)
    \/ CreateExpense(1)
    \/ PutExpense(1)
    \/ PatchExpense(1)
    \/ DeleteExpense(1)
    \/ StoreToken(1)
    \/ HandleLogout(1)

Spec == Init /\ [][Next]_vars

\* register and login requests served concurrently
AuthEndpoints == {<<"POST", "/api/register">>, <<"POST", "/api/login">>}

NextConc ==
    \E s \in Slots :
        \/ \E ep \in AuthEndpoints : Request(s, ep, MaxTokens)
        \/ RegisterCheck(s)
        \/ RegisterInsert(s)
        \/ Login(s)

SpecConc == Init /\ [][NextConc]_vars

\* every route of the table, one request at a time, the environment at rest
NextRoutes ==
    \/ \E ep \in Endpoints : Request(1, ep, MaxTokens)
    \/ AuthStep(1)
    \/ RegisterCheck(1)
    \/ RegisterInsert(1)
    \/ Login(1)
    \/ GetAuthUser(1)
    \/ Logout(1)
    \/ ListExpenses(1)
    \/ CreateExpense(1)
    \/ PutExpense(1)
    \/ PatchExpense(1)
    \/ DeleteExpense(1)
    \/ Upload(1)
    \/ ServeStatic(1)
    \/ SearchReceipts(1)
    \/ OtherHandler(1)

SpecRoutes == Init /\ [][NextRoutes]_vars

\* the steps of the server for the request of slot s: the middleware and the
\* handlers, each resumed by the event loop once its await has settled
ServerStep(s) ==
    \/ AuthStep(s)
    \/ RegisterCheck(s)
    \/ RegisterInsert(s)
    \/ Login(s)
    \/ GetAuthUser(s)
    \/ Logout(s)
    \/ ListExpenses(s)
    \/ CreateExpense(s)
    \/ PutExpense(s)
    \/ PatchExpense(s)
    \/ DeleteExpense(s)
    \/ Upload(s)
    \/ ServeStatic(s)
    \/ SearchReceipts(s)
    \/ OtherHandler(s)

\* every route of the table, with a server that keeps running
SpecRoutesLive == SpecRoutes /\ WF_vars(ServerStep(1))

\* tokens over time: the days pass, the process restarts, users are deleted
TimeEndpoints ==
    {<<"POST", "/api/login">>, <<"GET", "/api/auth/user">>}

NextTime ==
    \/ \E ep \in TimeEndpoints : Request(1, ep, MaxTokens)
    \/ AuthStep(1)
    \/ Login(1)
    \/ GetAuthUser(1)
    \/ Tick
    \/ Restart
    \/ \E u \in users : DbDeleteUser(u)

SpecTime == Init /\ [][NextTime]_vars

\* accounts and tokens over the days: register, login and the current user
MintEndpoints ==
    {<<"POST", "/api/register">>, <<"POST", "/api/login">>,
     <<"GET", "/api/auth/user">>}

NextMint ==
    \/ \E ep \in MintEndpoints : Request(1, ep, MaxMintTokens)
    \/ AuthStep(1)
    \/ RegisterCheck(1)
    \/ RegisterInsert(1)
    \/ Login(1)
    \/ GetAuthUser(1)
    \/ Tick

SpecMint == Init /\ [][NextMint]_vars

\* receipts: files uploaded by callers who logged in, alone or with an
\* expense, fetched from /uploads and searched
UploadEndpoints ==
    {<<"POST", "/api/login">>, <<"POST", "/api/upload">>,
     <<"GET", "/uploads/:filename">>, <<"GET", "/api/receipts/search">>}

ReceiptEndpoints ==
    {<<"POST", "/api/expenses">>, <<"PUT", "/api/expenses/:id">>}

RequestWithReceipt(s, ep) ==
    \E hdr \in Headers, body \in ReceiptBodies, param \in ParamsFor(ep[2]) :
        Arrive(s, ep, hdr, body, param, NoQuery)

NextUpload ==
    \/ \E ep \in UploadEndpoints : Request(1, ep, MaxTokens)
    \/ \E ep \in ReceiptEndpoints : RequestWithReceipt(1, ep)
    \/ AuthStep(1)
    \/ Login(1)
    \/ Upload(1)
    \/ CreateExpense(1)
    \/ PutExpense(1)
    \/ ServeStatic(1)
    \/ SearchReceipts(1)

SpecUpload == Init /\ [][NextUpload]_vars

\* the forms of the Landing page, submitted one at a time by the browser
LandingServerStep(s) ==
    \/ AuthStep(s)
    \/ RegisterCheck(s)
    \/ RegisterInsert(s)
    \/ Login(s)
    \/ GetAuthUser(s)

NextLanding ==
    \/ \E body \in LoginBodies : HandleSubmit(1, <<"POST", "/api/login">>, body)
    \/ \E body \in RegisterBodies :
          HandleSubmit(1, <<"POST", "/api/register">>, body)
    \/ LandingServerStep(1)
    \/ HandleResponse(1)
    \/ HandleRefetched(1)

\* the server answers and the browser resumes the handler after each await
SpecLanding ==
    /\ Init
    /\ [][NextLanding]_vars
    /\ WF_vars(LandingServerStep(1))
    /\ WF_vars(HandleResponse(1))
    /\ WF_vars(HandleRefetched(1))

-----------------------------------------------------------------------------
(* Properties *)

\* the caller of a request: the user its bearer token names
Caller(r) == r.hdr.token.userId

Answered(r, h) == r.pc = "done" /\ Handler(r) = h

\* the middleware of slot s takes its step
MiddlewareRuns(s) ==
    /\ reqs[s].pc = "auth"
    /\ reqs'[s].pc \in {"handler", "done"}
    /\ reqs'[s].route = reqs[s].route

\* the signature of t is that of its payload under the server's present key
SignedByServer(t) == t.sig = <<t.userId, t.iat, t.exp, secret>>

\* C1: GET /api/expenses answers an authenticated caller with expenses of
\* that caller only, whatever the query string holds.
C1_ListOnlyOwnExpenses ==
    \A s \in Slots :
        (Answered(reqs[s], "listExpenses") /\ reqs[s].status = 200)
            => \A e \in reqs[s].out.rows : e.userId = Caller(reqs[s])

\* the list was answered for a caller with filters set while the store holds
\* expenses of that caller and of another user
C1_Witness ==
    \E s \in Slots :
        /\ Answered(reqs[s], "listExpenses")
        /\ reqs[s].status = 200
        /\ reqs[s].authed
        /\ reqs[s].query # NoQuery
        /\ \E e1, e2 \in expenses :
              e1.userId = Caller(reqs[s]) /\ e2.userId # Caller(reqs[s])

\* C2: the id the middleware attaches is the id in the verified token, and
\* the id every handler hands to the storage layer is that same id.
C2_HandlerPassesTokenUserId ==
    \A s \in Slots :
        reqs[s].authed =>
            /\ reqs[s].ctxUserId = Caller(reqs[s])
            /\ \A id \in reqs[s].storageArgs : id = Caller(reqs[s])

\* C3: without an Authorization header that starts with 'Bearer ' the
\* middleware answers 401 and nothing else happens: no verification, no
\* user lookup, no handler.
C3_NoBearerNoProcessing ==
    \A s \in Slots :
        LET r == reqs[s]
        IN  (r.pc \in {"handler", "done"} /\ Routes[r.route].auth
                /\ r.hdr.scheme # "Bearer")
                => /\ r.pc = "done"
                   /\ r.status = 401
                   /\ ~r.verified /\ ~r.looked /\ ~r.authed /\ ~r.invoked
                   /\ r.storageArgs = {}

\* a request with a header of another scheme was answered
C3_Witness ==
    \E s \in Slots :
        /\ reqs[s].pc = "done"
        /\ Routes[reqs[s].route].auth
        /\ reqs[s].hdr.scheme = "Basic"
        /\ reqs[s].status = 401

\* C4: when the bearer token does not verify (signature, payload, expiry) or
\* its user row is gone, the middleware answers 401, attaches nothing and
\* the handler is not invoked.
C4_BadTokenRejected ==
    [][\A s \in Slots :
          (/\ MiddlewareRuns(s)
           /\ reqs[s].hdr.scheme = "Bearer"
           /\ \/ ~SignedByServer(reqs[s].hdr.token)
              \/ clock >= reqs[s].hdr.token.exp
              \/ \A u \in users : u.id # Caller(reqs[s]))
          => /\ reqs'[s].pc = "done"
             /\ reqs'[s].status = 401
             /\ reqs'[s].ctxUserId = Undefined
             /\ reqs'[s].ctxUser = NoUser
             /\ ~reqs'[s].invoked]_vars

\* a token that verifies was refused because its user row is gone
C4_Witness ==
    \E s \in Slots :
        /\ reqs[s].pc = "done"
        /\ reqs[s].status = 401
        /\ reqs[s].msg = "User not found"
        /\ reqs[s].hdr.token \in IssuedTokens
        /\ ~reqs[s].invoked

\* C5: a handler that calls the storage layer runs only in a request that
\* has passed the middleware.
C5_StorageBehindAuth ==
    \A s \in Slots :
        LET r == reqs[s]
        IN  ((r.invoked /\ Routes[r.route].storage) \/ r.storageArgs # {})
                => r.authed

\* a request reached the storage layer
C5_Witness ==
    \E s \in Slots :
        /\ reqs[s].pc = "done"
        /\ reqs[s].storageArgs # {}
        /\ reqs[s].authed

\* C6: a minted token is accepted on every day before the seventh after its
\* minting (its user existing, the key unchanged) and refused on every day
\* after it; a token that was never minted is refused.
C6_TokenLifetime ==
    [][\A s \in Slots :
          (MiddlewareRuns(s) /\ reqs[s].hdr.scheme = "Bearer") =>
              /\ \A i \in issued :
                    i.token = reqs[s].hdr.token =>
                        /\ (/\ i.key = secret
                            /\ i.token.userId \in UserIds
                            /\ clock < i.at + ExpiresInDays) => reqs'[s].authed
                        /\ clock > i.at + ExpiresInDays => reqs'[s].status = 401
              /\ reqs[s].hdr.token \notin IssuedTokens => reqs'[s].status = 401]_vars

\* a minted token was refused after its seventh day, its user existing and
\* the key unchanged
C6_Witness ==
    \E s \in Slots :
        /\ reqs[s].pc = "done"
        /\ reqs[s].status = 401
        /\ \E i \in issued :
              /\ i.token = reqs[s].hdr.token
              /\ i.key = secret
              /\ i.token.userId \in UserIds
              /\ clock > i.at + ExpiresInDays

\* the middleware would accept t now
Accepted(t) ==
    SignedByServer(t) /\ clock < t.exp /\ \E u \in users : u.id = t.userId

\* C7: POST /api/logout changes nothing on the server, so a token accepted
\* before it is accepted after it; logging out in the browser removes the
\* stored token and fetches identity again, and changes nothing else.
C7_LogoutIsClientSide ==
    [][/\ \A s \in Slots :
            (reqs[s].pc = "handler" /\ Handler(reqs[s]) = "logout"
                /\ reqs'[s].pc = "done")
            => /\ UNCHANGED <<users, expenses, nextId, issued, secret, clock,
                              authToken>>
               /\ \A t \in IssuedTokens : Accepted(t) => Accepted(t)'
       /\ (authToken # NoToken /\ authToken' = NoToken)
            => /\ UNCHANGED <<users, expenses, nextId, issued, secret, clock>>
               /\ \E s \in Slots :
                     /\ reqs'[s].pc = "auth"
                     /\ Routes[reqs'[s].route].path = "/api/auth/user"
                     /\ Routes[reqs'[s].route].method = "GET"]_vars

\* POST /api/logout was answered while a minted token is still acceptable
C7_Witness ==
    \E s \in Slots :
        /\ Answered(reqs[s], "logout")
        /\ reqs[s].status = 200
        /\ \E t \in IssuedTokens : Accepted(t)

\* C8: a register request with every field whose email is stored is answered
\* 400 'User already exists', mints no token and leaves the users unchanged.
C8_DuplicateEmailConflict ==
    [][\A s \in Slots :
          (/\ reqs[s].pc = "handler"
           /\ Handler(reqs[s]) = "register"
           /\ reqs'[s].pc # "handler"
           /\ reqs'[s].route = reqs[s].route
           /\ None \notin {reqs[s].body.email, reqs[s].body.password,
                           reqs[s].body.firstName, reqs[s].body.lastName}
           /\ \E u \in users : u.email = reqs[s].body.email)
          => /\ reqs'[s].pc = "done"
             /\ reqs'[s].status = 400
             /\ reqs'[s].msg = "User already exists"
             /\ reqs'[s].out.token = NoToken
             /\ UNCHANGED <<users, issued>>]_vars

\* an email registered through the API was refused on a second registration
\* that carried another password
C8_Witness ==
    \E s \in Slots :
        /\ Answered(reqs[s], "register")
        /\ reqs[s].status = 400
        /\ reqs[s].msg = "User already exists"
        /\ \E u \in users \ SeedUsers :
              /\ u.email = reqs[s].body.email
              /\ u.password # BcryptHash(reqs[s].body.password)

AllFields(b) == None \notin {b.email, b.password, b.firstName, b.lastName}

\* C9: of two register requests for one email served concurrently, one
\* succeeds and the other is answered 400 (not 500), and one row holds the
\* email afterwards.
C9_ConcurrentRegisterConflict ==
    /\ EmailUnique
    /\ \A s1, s2 \in Slots :
          (/\ s1 # s2
           /\ Answered(reqs[s1], "register") /\ Answered(reqs[s2], "register")
           /\ AllFields(reqs[s1].body) /\ AllFields(reqs[s2].body)
           /\ reqs[s1].body.email = reqs[s2].body.email
           /\ reqs[s1].status = 200)
          => reqs[s2].status = 400

\* C10: a login with an unknown email and a login with a known email and a
\* wrong password get the same answer: 401 'Invalid credentials'.
C10_LoginNoEnumeration ==
    \A s1, s2 \in Slots :
        (/\ Answered(reqs[s1], "login") /\ Answered(reqs[s2], "login")
         /\ None \notin {reqs[s1].body.email, reqs[s1].body.password}
         /\ None \notin {reqs[s2].body.email, reqs[s2].body.password}
         /\ ~reqs[s1].found
         /\ reqs[s2].found /\ ~reqs[s2].pwOk)
        => /\ reqs[s1].status = 401
           /\ reqs[s1].msg = "Invalid credentials"
           /\ reqs[s1].status = reqs[s2].status
           /\ reqs[s1].msg = reqs[s2].msg
           /\ reqs[s1].out = reqs[s2].out

\* both kinds of failed login were answered
C10_Witness ==
    \E s1, s2 \in Slots :
        /\ Answered(reqs[s1], "login") /\ Answered(reqs[s2], "login")
        /\ UsersByEmail(reqs[s1].body.email) = {}
        /\ reqs[s1].body.email \notin {None}
        /\ reqs[s1].body.password # None
        /\ reqs[s2].found /\ ~reqs[s2].pwOk
        /\ reqs[s2].body.password # None

\* the handler of slot s sends its response
HandlerAnswers(s) ==
    /\ reqs[s].pc \in {"handler", "insert"}
    /\ reqs'[s].pc = "done"
    /\ reqs'[s].route = reqs[s].route

PublicFields == {"id", "email", "firstName", "lastName", "profileImageUrl"}

\* C11: a successful register or login answers with a token signed in that
\* request for the user created or matched, and with that user's public
\* fields; no answer of register, login or GET /api/auth/user holds the
\* password hash.
C11_TokenAndPublicUser ==
    [][\A s \in Slots :
          (HandlerAnswers(s) /\ Handler(reqs[s]) \in {"register", "login", "authUser"})
          => LET out == reqs'[s].out
             IN  /\ DOMAIN out.user \subseteq PublicFields
                 /\ (Handler(reqs[s]) # "authUser" /\ reqs'[s].status = 200)
                      => /\ DOMAIN out.user = PublicFields
                         /\ \E u \in users' :
                               /\ u.email = reqs[s].body.email
                               /\ out.user = [f \in PublicFields |-> u[f]]
                               /\ out.token.userId = u.id
                         /\ out.token.exp = clock + ExpiresInDays
                         /\ SignedByServer(out.token)
                         /\ \E i \in issued' :
                               /\ i.token = out.token
                               /\ i.at = clock
                               /\ i.by = Handler(reqs[s])]_vars

\* a registration was answered with a token on a day after day 0
C11_Witness ==
    \E s \in Slots :
        /\ Answered(reqs[s], "register")
        /\ reqs[s].status = 200
        /\ reqs[s].out.token \in IssuedTokens
        /\ reqs[s].out.user.email = reqs[s].body.email
        /\ clock > 0

\* the middleware would accept t after the step
AcceptedAfter(t) ==
    /\ t.sig = <<t.userId, t.iat, t.exp, secret'>>
    /\ clock' < t.exp
    /\ \E u \in users' : u.id = t.userId

\* C12: the token a login returns differs from the token the registration
\* of that user returned, the login leaves that token acceptable, and both
\* are acceptable once the login has answered.
C12_LoginTokenDiffers ==
    [][\A s \in Slots :
          (HandlerAnswers(s) /\ Handler(reqs[s]) = "login" /\ reqs'[s].status = 200)
          => \A i \in issued :
                (i.by = "register" /\ i.token.userId = reqs'[s].out.token.userId)
                => /\ reqs'[s].out.token # i.token
                   /\ Accepted(i.token) => (AcceptedAfter(i.token)
                                             /\ AcceptedAfter(reqs'[s].out.token))]_vars

\* slot s serves GET /api/auth/user as localAuth registers it
ServesAuthUser(s) == reqs[s].route > 0 /\ Handler(reqs[s]) = "authUser"

\* the bearer token of r verifies now
TokenValid(r) ==
    r.hdr.scheme = "Bearer" /\ SignedByServer(r.hdr.token) /\ clock < r.hdr.token.exp

UserGone(r) == \A u \in users : u.id # Caller(r)

\* C13 as claimed: GET /api/auth/user with a token that verifies and whose
\* user row is gone is answered 404; with no token or one that does not
\* verify it is answered 401.
C13_VanishedUserIs404 ==
    [][\A s \in Slots :
          (/\ ServesAuthUser(s)
           /\ reqs[s].pc \in {"auth", "handler"}
           /\ reqs'[s].pc = "done"
           /\ reqs'[s].route = reqs[s].route)
          => /\ (TokenValid(reqs[s]) /\ UserGone(reqs[s])) => reqs'[s].status = 404
             /\ (reqs[s].pc = "auth" /\ ~TokenValid(reqs[s])) => reqs'[s].status = 401]_vars

\* C13 as amended: the middleware answers 401 when there is no token, when
\* the token does not verify, and when the token verifies and its user row
\* is gone ('User not found'); the handler answers 404 when the row has
\* gone by the time of its own lookup, after the middleware found it.
C13_VanishedUserIs401ThenMaybe404 ==
    [][\A s \in Slots :
          ServesAuthUser(s) =>
             /\ MiddlewareRuns(s) =>
                   /\ ~TokenValid(reqs[s]) =>
                         (reqs'[s].pc = "done" /\ reqs'[s].status = 401)
                   /\ (TokenValid(reqs[s]) /\ UserGone(reqs[s])) =>
                         /\ reqs'[s].pc = "done"
                         /\ reqs'[s].status = 401
                         /\ reqs'[s].msg = "User not found"
                   /\ (TokenValid(reqs[s]) /\ ~UserGone(reqs[s])) =>
                         reqs'[s].pc = "handler"
             /\ (reqs[s].pc = "handler" /\ HandlerAnswers(s)) =>
                   reqs'[s].status = (IF UserGone(reqs[s]) THEN 404 ELSE 200)]_vars

\* both answers were given to a token that verifies: 404 by the handler,
\* the user row having gone after the middleware found it
C13_Witness ==
    \E s \in Slots :
        /\ Answered(reqs[s], "authUser")
        /\ reqs[s].status = 404
        /\ reqs[s].authed
        /\ TokenValid(reqs[s])
        /\ UserGone(reqs[s])

\* the expenses the list is asked for: those of the caller that pass every
\* filter of the query string
ExpectedList(r) ==
    {e \in expenses : e.userId = Caller(r) /\ MatchesFilters(e, r.query)}

\* C14: GET /api/expenses answers with exactly the caller's expenses that
\* satisfy every filter of the query string.
C14_ListAppliesFilters ==
    \A s \in Slots :
        (Answered(reqs[s], "listExpenses") /\ reqs[s].authed)
            => /\ reqs[s].status = 200
               /\ reqs[s].out.rows = ExpectedList(reqs[s])

\* the request of slot s names an expense of another user than the caller
CrossTenant(r) ==
    /\ r.route > 0
    /\ Handler(r) \in {"putExpense", "patchExpense", "deleteExpense"}
    /\ r.authed
    /\ \E e \in expenses : e.id = r.param /\ e.userId # Caller(r)

\* C15: PUT, PATCH and DELETE /api/expenses/:id on an expense of another
\* user are answered 404.
C15_CrossTenantIs404 ==
    \A s \in Slots :
        (reqs[s].pc = "done" /\ CrossTenant(reqs[s])) => reqs[s].status = 404

\* C16: PUT, PATCH and DELETE /api/expenses/:id on an expense of another
\* user change no stored row.
C16_CrossTenantChangesNothing ==
    [][\A s \in Slots :
          (HandlerAnswers(s) /\ CrossTenant(reqs[s]))
              => UNCHANGED <<expenses, users>>]_vars

\* a PATCH with new values for an expense of another user was answered
\* without an error, and so was a DELETE
C16_Witness ==
    \E s \in Slots :
        /\ reqs[s].pc = "done"
        /\ CrossTenant(reqs[s])
        /\ Handler(reqs[s]) = "patchExpense"
        /\ reqs[s].status = 200
        /\ \E e \in expenses :
              e.id = reqs[s].param /\ e.category # reqs[s].body.category

\* C17: POST /api/expenses without category and with a description stores
\* an expense with the category and the tags aiService.analyzeExpense
\* returns.
C17_CategoryFromCollaborator ==
    \A s \in Slots :
        (/\ Answered(reqs[s], "createExpense")
         /\ reqs[s].authed
         /\ Field(reqs[s].body, "category") = None
         /\ Field(reqs[s].body, "description") # None)
        => /\ reqs[s].status = 200
           /\ \E e \in expenses :
                 /\ e \in reqs[s].out.rows
                 /\ e.description = reqs[s].body.description
                 /\ e.category = AnalyzeExpense(e.description).suggestedCategory
                 /\ e.tags = AnalyzeExpense(e.description).tags

\* the file of an upload is not an image or a PDF, or is larger than 10MB
BadFile(f) ==
    \/ ~(f.mimetype[1] = "image" \/ f.mimetype = <<"application", "pdf">>)
    \/ f.size > 10 * 1024 * 1024

\* C19: an authenticated POST /api/upload with a file of another type than
\* image or PDF, or larger than 10MB, is answered with a status of the 400
\* class and no URL; without a file it is answered 400.
C19_UploadRejects4xx ==
    \A s \in Slots :
        LET r == reqs[s]
        IN  (Answered(r, "upload") /\ r.authed) =>
                /\ r.body.file = NoFile => r.status = 400
                /\ (r.body.file # NoFile /\ BadFile(r.body.file))
                      => (r.status \in 400 .. 499 /\ r.out.url = None)

\* C20: POST /api/expenses with a body that fails validation (a required
\* field is missing) is answered 400 and creates no record.
C20_InvalidBodyIs400 ==
    [][\A s \in Slots :
          (/\ HandlerAnswers(s)
           /\ Handler(reqs[s]) = "createExpense"
           /\ reqs[s].authed
           /\ Field(reqs[s].body, "description") = None)
          => /\ reqs'[s].status = 400
             /\ UNCHANGED expenses]_vars

\* the routes of the same method and path as route i
SameEndpoint(i) ==
    {j \in DOMAIN Routes :
        Routes[j].method = Routes[i].method /\ Routes[j].path = Routes[i].path}

\* the method and path of route i are registered more than once under /api
Duplicated(i) == Routes[i].handler # "static" /\ Cardinality(SameEndpoint(i)) > 1

\* C21: the methods and paths registered more than once are POST and GET
\* /api/expenses, DELETE /api/expenses/:id, POST and GET /api/budgets, GET
\* /api/auth/user and POST /api/ai/analyze-expense; a request to one of
\* them is served by the registration that comes first, so never by a later
\* one.
C21_FirstRegistrationAnswers ==
    /\ {<<Routes[i].method, Routes[i].path>> : i \in {j \in DOMAIN Routes : Duplicated(j)}}
          = {<<"POST", "/api/expenses">>, <<"GET", "/api/expenses">>,
             <<"DELETE", "/api/expenses/:id">>, <<"POST", "/api/budgets">>,
             <<"GET", "/api/budgets">>, <<"GET", "/api/auth/user">>,
             <<"POST", "/api/ai/analyze-expense">>}
    /\ \A s \in Slots :
          (reqs[s].route > 0 /\ Duplicated(reqs[s].route))
              => \A j \in SameEndpoint(reqs[s].route) : reqs[s].route <= j

\* a POST /api/expenses went through the middleware and was answered by the
\* handler registered first
C21_Witness ==
    \E s \in Slots :
        /\ Answered(reqs[s], "createExpense")
        /\ reqs[s].invoked
        /\ Duplicated(reqs[s].route)

\* C22: a file stored under uploads/ by a user is sent through
\* /uploads/<filename> only to a request that is authenticated as that user.
C22_ReceiptOnlyToOwner ==
    \A s \in Slots :
        (Answered(reqs[s], "static") /\ reqs[s].status = 200)
            => \A f \in uploads :
                  f.name = reqs[s].param
                      => (reqs[s].authed /\ reqs[s].ctxUserId = f.by)

\* expense e satisfies every criterion the query string q of the search
\* supplies
MeetsCriteria(e, q) ==
    /\ q.query = None \/ Contains(e.description, q.query)
    /\ q.category = None \/ e.category = q.category
    /\ q.dateFrom = None \/ e.date >= q.dateFrom
    /\ q.dateTo = None \/ e.date <= q.dateTo
    /\ q.tags = None \/ e.tags \cap q.tags # {}

\* C23: every entry GET /api/receipts/search answers with is an expense of
\* the authenticated caller that has a receiptUrl and satisfies every
\* criterion of the query string; an expense without a receipt is never
\* in the answer.
C23_SearchOnlyOwnReceipts ==
    \A s \in Slots :
        (Answered(reqs[s], "searchReceipts") /\ reqs[s].status = 200)
            => \A x \in reqs[s].out.rows :
                  \E e \in expenses :
                      /\ e.id = x.id
                      /\ e.userId = Caller(reqs[s])
                      /\ e.receiptUrl # None
                      /\ x.receiptUrl = e.receiptUrl
                      /\ MeetsCriteria(e, reqs[s].query)

\* the search was answered for a caller with a criterion set, while the
\* store holds an expense of the caller without a receipt and an expense of
\* another user with a receipt, both meeting the criterion
C23_Witness ==
    \E s \in Slots :
        /\ Answered(reqs[s], "searchReceipts")
        /\ reqs[s].status = 200
        /\ reqs[s].authed
        /\ reqs[s].query # NoReceiptQuery
        /\ \E e1, e2 \in expenses :
              /\ e1.userId = Caller(reqs[s]) /\ e1.receiptUrl = None
              /\ e2.userId # Caller(reqs[s]) /\ e2.receiptUrl # None
              /\ MeetsCriteria(e1, reqs[s].query)
              /\ MeetsCriteria(e2, reqs[s].query)

\* C24: the owner of a stored expense never changes, whatever the bodies of
\* the create, PUT, PATCH and DELETE requests hold (a userId or an id
\* included): a row keeps its userId as long as it exists, and a row that
\* appears has the caller of the create request as its userId.
C24_OwnerNeverChanges ==
    [][/\ \A e \in expenses : \A f \in expenses' :
             f.id = e.id => f.userId = e.userId
       /\ \A f \in expenses' :
             (\A e \in expenses : e.id # f.id)
                 => \E s \in Slots :
                       /\ HandlerAnswers(s)
                       /\ Handler(reqs[s]) = "createExpense"
                       /\ f.userId = Caller(reqs[s])]_vars

\* an authenticated caller's PUT and PATCH of an own expense, with the id of
\* another user as userId in the body, were answered without an error
C24_Witness ==
    \E s \in Slots :
        /\ reqs[s].pc = "done"
        /\ Handler(reqs[s]) \in {"putExpense", "patchExpense"}
        /\ reqs[s].authed
        /\ reqs[s].status = 200
        /\ Prop(reqs[s].body, "userId") \notin {Undefined, Caller(reqs[s])}
        /\ \E e \in expenses :
              e.id = reqs[s].param /\ e.userId = Caller(reqs[s])

\* C25: on the routes that take a file (POST /api/expenses, PUT
\* /api/expenses/:id, POST /api/upload) the auth middleware comes before
\* upload.single: a step that answers 401 writes no file, and a file is only
\* written by the step of a request that the middleware let through.
C25_NoFileWithout401Passed ==
    [][/\ \A s \in Slots :
             (reqs'[s] # reqs[s] /\ reqs'[s].pc = "done" /\ reqs'[s].status = 401)
                 => uploads' = uploads
       /\ uploads' # uploads
             => \E s \in Slots :
                   /\ reqs[s].pc = "handler"
                   /\ Routes[reqs[s].route].upload
                   /\ reqs[s].authed
                   /\ reqs'[s].pc = "done"
                   /\ reqs'[s].status # 401]_vars

\* a POST /api/expenses that carried a file the upload would have stored
\* was answered 401, and uploads/ is empty
C25_Witness ==
    \E s \in Slots :
        /\ Answered(reqs[s], "createExpense")
        /\ reqs[s].status = 401
        /\ Stored(FileOf(reqs[s].body))
        /\ uploads = {}

\* the request of slot s is being served
InFlight(s) == reqs[s].pc \notin {"idle", "done"}

\* C26: a request gets exactly one response: none is sent while the request
\* is with the middleware or the handler (so the middleware never answers
\* 401 and goes on to the handler), one has been sent when it is done,
\* never two; and every request being served is eventually answered.
C26_ExactlyOneResponse ==
    /\ [](\A s \in Slots :
             /\ reqs[s].sent <= 1
             /\ reqs[s].pc = "done" => reqs[s].sent = 1
             /\ reqs[s].pc # "done" => reqs[s].sent = 0)
    /\ \A s \in Slots : InFlight(s) ~> (reqs[s].pc = "done")

\* a request whose upload failed was answered, once, by the error handler
\* of the application
C26_Witness ==
    \E s \in Slots :
        /\ Answered(reqs[s], "upload")
        /\ reqs[s].authed
        /\ ~reqs[s].invoked
        /\ reqs[s].status = 500
        /\ reqs[s].sent = 1

\* the Landing page takes the step after its request has settled
LandingResumes == landing.pc = "awaiting" /\ landing'.pc # "awaiting"

\* the steps of the Landing page: the token is written only by the step that
\* follows a request answered 200, to that response's token, and the
\* identity request leaves with it; after a failure nothing is written and
\* the error is set; a submit sets isLoading
LandingStepOk ==
    /\ authToken' # authToken
          => /\ LandingResumes
             /\ reqs[1].status = 200
             /\ Handler(reqs[1]) \in {"login", "register"}
             /\ authToken' = reqs[1].out.token
             /\ landing'.pc = "refetching"
             /\ reqs'[1].pc = "auth"
             /\ reqs'[1].hdr.token = authToken'
    /\ (LandingResumes /\ reqs[1].status # 200)
          => /\ authToken' = authToken
             /\ ~landing'.wrote
             /\ landing'.error # ""
    /\ (LandingResumes /\ reqs[1].status = 200)
          => (authToken' = reqs[1].out.token /\ landing'.error = "")
    /\ (landing.pc = "idle" /\ landing'.pc # "idle") => landing'.isLoading

\* C27: in the login and register flows of the Landing page the token is
\* written to local storage only once the request has succeeded, and the
\* identity is fetched after that, with the new token; when the request
\* fails no token is written and an error message is set; isLoading is
\* true from the submit on and is eventually false again on both outcomes.
C27_LandingFlow ==
    /\ [][LandingStepOk]_vars
    /\ [](landing.pc # "idle" => landing.isLoading)
    /\ landing.isLoading ~> ~landing.isLoading

\* a form succeeded: its token is in local storage, the identity was
\* fetched with it and the page is at rest, no longer loading
C27_Witness ==
    /\ landing.pc = "idle"
    /\ landing.wrote
    /\ ~landing.isLoading
    /\ landing.error = ""
    /\ authToken # NoToken
    /\ Answered(reqs[1], "authUser")
    /\ reqs[1].status = 200

====
